---- MODULE Spec2Model ----
(***************************************************************************)
(* Blogicum: the entity store (User, Location, Category, Post), the        *)
(* PublishedPostsManager visibility filter and the three read-only views   *)
(* index, post_detail and category_posts.                                  *)
(***************************************************************************)
EXTENDS Integers, Sequences, FiniteSets

VARIABLES
    users,       \* ids of the User rows
    locations,   \* ids of the Location rows
    categories,  \* Category rows: [id, slug, is_published]
    posts,       \* Post rows: [id, author, location, category, is_published, pub_date]
    now,         \* what django.utils.timezone.now() returns
    pending,     \* category_posts between its two reads: [slug, category]
    resp         \* the response of the view that ran last on this store

store == <<users, locations, categories, posts>>
vars == <<users, locations, categories, posts, now, pending, resp>>

\* ---------------------------------------------------------------- bounds
MaxUsers == 1
MaxLocations == 1
MaxCategories == 2
MaxPosts == 2
MaxTime == 2
MaxPageSize == 2

UserIds == 1..MaxUsers
LocationIds == 1..MaxLocations
CategoryIds == 1..MaxCategories
PostIds == 1..MaxPosts
Slugs == {"news", "travel"}
PubDates == 0..(MaxTime - 1)
PageSizes == 1..MaxPageSize
\* ids a request may carry: those a post can have and one no post ever has
RequestIds == 1..(MaxPosts + 1)

\* the empty value of a nullable foreign key
NULL == 0

\* ------------------------------------------------------------- responses
NoResp == [op |-> "none", arg |-> <<>>, status |-> 0,
           category |-> <<>>, post |-> <<>>, post_list |-> <<>>]
NoReq == <<>>

\* Http404 raised by get_object_or_404: no context is rendered
NotFound(op, arg) == [op |-> op, arg |-> <<arg>>, status |-> 404,
                      category |-> <<>>, post |-> <<>>, post_list |-> <<>>]

\* what the caller gets: the status and the rendered context
Outcome(r) == [status |-> r.status, category |-> r.category,
               post |-> r.post, post_list |-> r.post_list]

\* ------------------------------------------------------------ ORM reads
Min(a, b) == IF a < b THEN a ELSE b

\* Meta.ordering = ('-pub_date',): every row of S once, pub_date descending;
\* the order of rows with equal pub_date is the database's choice
order_by_pub_date_desc(S) ==
    { f \in [1..Cardinality(S) -> S] :
        /\ \A i, j \in 1..Cardinality(S) : i # j => f[i] # f[j]
        /\ \A i, j \in 1..Cardinality(S) : i < j => f[i].pub_date >= f[j].pub_date }

\* mutant: the page-size slice is dropped
slice_unlimited(seq, n) == seq

\* queryset[:n]
slice(seq, n) == SubSeq(seq, 1, Min(n, Len(seq)))

\* mutant: pub_date__lte instead of pub_date__lt
get_queryset_lte(P, Cs, t) ==
    { p \in P :
        /\ p.is_published = TRUE
        /\ p.pub_date <= t
        /\ \E c \in Cs : c.id = p.category /\ c.is_published = TRUE }

\* mutant: now() evaluated once, when the manager is built
get_queryset_cached_now(P, Cs, t) ==
    { p \in P :
        /\ p.is_published = TRUE
        /\ p.pub_date < 0
        /\ \E c \in Cs : c.id = p.category /\ c.is_published = TRUE }

\* mutant: the category__is_published condition is left out
get_queryset_any_category(P, Cs, t) ==
    { p \in P :
        /\ p.is_published = TRUE
        /\ p.pub_date < t
        /\ \E c \in Cs : c.id = p.category }

\* PublishedPostsManager.get_queryset: the filter on category__is_published
\* joins Post to Category on category_id, so a row needs a matching category
get_queryset(P, Cs, t) ==
    { p \in P :
        /\ p.is_published = TRUE
        /\ p.pub_date < t
        /\ \E c \in Cs : c.id = p.category /\ c.is_published = TRUE }

\* mutant: the category__slug condition is left out
filter_category_slug_missing(P, Cs, t, slug) ==
    { p \in P :
        /\ p.is_published = TRUE
        /\ p.pub_date < t
        /\ \E c \in Cs : c.id = p.category /\ c.is_published = TRUE }

\* Post.published.filter(category__slug=category_slug)
filter_category_slug(P, Cs, t, slug) ==
    { p \in get_queryset(P, Cs, t) :
        \E c \in Cs : c.id = p.category /\ c.slug = slug }

\* mutant: Post.objects instead of Post.published
post_detail_response_objects(P, Cs, t, id) ==
    LET found == { p \in P : p.id = id }
    IN  IF found = {}
        THEN NotFound("post_detail", id)
        ELSE [op |-> "post_detail", arg |-> <<id>>, status |-> 200,
              category |-> <<>>, post |-> <<CHOOSE p \in found : TRUE>>,
              post_list |-> <<>>]

\* mutant: a hidden post is answered with 403 instead of 404
post_detail_response_forbidden(P, Cs, t, id) ==
    LET found == { p \in P : /\ p.id = id
                             /\ p.is_published = TRUE
                             /\ p.pub_date < t
                             /\ \E c \in Cs : c.id = p.category /\ c.is_published = TRUE }
    IN  IF found # {}
        THEN [op |-> "post_detail", arg |-> <<id>>, status |-> 200,
              category |-> <<>>, post |-> <<CHOOSE p \in found : TRUE>>,
              post_list |-> <<>>]
        ELSE IF \E p \in P : p.id = id
        THEN [op |-> "post_detail", arg |-> <<id>>, status |-> 403,
              category |-> <<>>, post |-> <<>>, post_list |-> <<>>]
        ELSE NotFound("post_detail", id)

\* get_object_or_404(Post.published.all(), id=post_id)
post_detail_response(P, Cs, t, id) ==
    LET found == { p \in get_queryset(P, Cs, t) : p.id = id }
    IN  IF found = {}
        THEN NotFound("post_detail", id)
        ELSE [op |-> "post_detail", arg |-> <<id>>, status |-> 200,
              category |-> <<>>, post |-> <<CHOOSE p \in found : TRUE>>,
              post_list |-> <<>>]

\* mutant: the is_published condition of the lookup is left out
get_category_unfiltered(Cs, slug) ==
    { c \in Cs : c.slug = slug }

\* get_object_or_404(Category, slug=category_slug, is_published=True)
get_category(Cs, slug) ==
    { c \in Cs : c.slug = slug /\ c.is_published = TRUE }

\* ----------------------------------------------------------------- Init
Init ==
    /\ users = {}
    /\ locations = {}
    /\ categories = {}
    /\ posts = {}
    /\ now = 0
    /\ pending = NoReq
    /\ resp = NoResp

\* ------------------------------------------------- administrative writes
\* every write ends the rendering of the previous response
Written == resp' = NoResp /\ UNCHANGED <<now, pending>>

CreateUser ==
    \E u \in UserIds \ users :
        /\ users' = users \cup {u}
        /\ UNCHANGED <<locations, categories, posts>>
        /\ Written

\* Post.author: on_delete=CASCADE
DeleteUser ==
    \E u \in users :
        /\ users' = users \ {u}
        /\ posts' = { p \in posts : p.author # u }
        /\ UNCHANGED <<locations, categories>>
        /\ Written

CreateLocation ==
    \E l \in LocationIds \ locations :
        /\ locations' = locations \cup {l}
        /\ UNCHANGED <<users, categories, posts>>
        /\ Written

\* Post.location: on_delete=SET_NULL
DeleteLocation ==
    \E l \in locations :
        /\ locations' = locations \ {l}
        /\ posts' = { IF p.location = l THEN [p EXCEPT !.location = NULL] ELSE p
                      : p \in posts }
        /\ UNCHANGED <<users, categories>>
        /\ Written

\* Category.slug: unique=True
CreateCategory ==
    \E id \in CategoryIds \ { c.id : c \in categories },
       slug \in Slugs \ { c.slug : c \in categories },
       pub \in BOOLEAN :
        /\ categories' = categories \cup
               {[id |-> id, slug |-> slug, is_published |-> pub]}
        /\ UNCHANGED <<users, locations, posts>>
        /\ Written

\* mutant: on_delete=DO_NOTHING for Post.category
DeleteCategory_do_nothing ==
    \E c \in categories :
        /\ categories' = categories \ {c}
        /\ resp' = NoResp
        /\ UNCHANGED <<users, locations, posts, now, pending>>

\* Post.category: on_delete=SET_NULL
DeleteCategory ==
    \E c \in categories :
        /\ categories' = categories \ {c}
        /\ posts' = { IF p.category = c.id THEN [p EXCEPT !.category = NULL] ELSE p
                      : p \in posts }
        /\ UNCHANGED <<users, locations>>
        /\ Written

SetCategoryPublished ==
    \E c \in categories :
        /\ categories' = (categories \ {c}) \cup
               {[c EXCEPT !.is_published = ~c.is_published]}
        /\ UNCHANGED <<users, locations, posts>>
        /\ Written

SetCategorySlug ==
    \E c \in categories, slug \in Slugs \ { d.slug : d \in categories } :
        /\ categories' = (categories \ {c}) \cup {[c EXCEPT !.slug = slug]}
        /\ UNCHANGED <<users, locations, posts>>
        /\ Written

\* author is required; category has null=True without blank=True, so a form
\* requires it; location has blank=True and may be left empty
CreatePost ==
    \E id \in PostIds \ { p.id : p \in posts },
       a \in users,
       l \in locations \cup {NULL},
       c \in { k.id : k \in categories },
       pub \in BOOLEAN,
       d \in PubDates :
        /\ posts' = posts \cup
               {[id |-> id, author |-> a, location |-> l, category |-> c,
                 is_published |-> pub, pub_date |-> d]}
        /\ UNCHANGED <<users, locations, categories>>
        /\ Written

DeletePost ==
    \E p \in posts :
        /\ posts' = posts \ {p}
        /\ UNCHANGED <<users, locations, categories>>
        /\ Written

SetPostCategory ==
    \E p \in posts : \E c \in { d.id : d \in categories } \ {p.category} :
        /\ posts' = (posts \ {p}) \cup {[p EXCEPT !.category = c]}
        /\ UNCHANGED <<users, locations, categories>>
        /\ Written

\* django.utils.timezone.now() advances
Tick ==
    /\ now < MaxTime
    /\ now' = now + 1
    /\ resp' = NoResp
    /\ UNCHANGED <<users, locations, categories, posts, pending>>

\* mutant: index deletes the posts it does not show
index_purging ==
    /\ pending = NoReq
    /\ \E n \in PageSizes :
           resp' = [op |-> "index", arg |-> <<n>>, status |-> 200,
                    category |-> <<>>, post |-> <<>>, post_list |-> <<>>]
    /\ posts' = { p \in posts : p.is_published }
    /\ UNCHANGED <<users, locations, categories, now, pending>>

\* ---------------------------------------------------------------- views
index ==
    /\ pending = NoReq
    /\ \E n \in PageSizes,
          seq \in order_by_pub_date_desc(get_queryset(posts, categories, now)) :
           resp' = [op |-> "index", arg |-> <<n>>, status |-> 200,
                    category |-> <<>>, post |-> <<>>,
                    post_list |-> slice(seq, n)]
    /\ UNCHANGED <<users, locations, categories, posts, now, pending>>

post_detail ==
    /\ pending = NoReq
    /\ \E id \in RequestIds :
           resp' = post_detail_response(posts, categories, now, id)
    /\ UNCHANGED <<users, locations, categories, posts, now, pending>>

\* first store access of category_posts: the category lookup
category_posts_category ==
    /\ pending = NoReq
    /\ \E slug \in Slugs :
           LET found == get_category(categories, slug)
           IN  IF found = {}
               THEN /\ resp' = NotFound("category_posts", slug)
                    /\ pending' = NoReq
               ELSE /\ resp' = NoResp
                    /\ pending' = [slug |-> slug,
                                   category |-> CHOOSE c \in found : TRUE]
    /\ UNCHANGED <<users, locations, categories, posts, now>>

\* second store access of category_posts: the post query, then render
category_posts_post_list ==
    /\ pending # NoReq
    /\ \E seq \in order_by_pub_date_desc(
                     filter_category_slug(posts, categories, now, pending.slug)) :
           resp' = [op |-> "category_posts", arg |-> <<pending.slug>>,
                    status |-> 200, category |-> <<pending.category>>,
                    post |-> <<>>, post_list |-> seq]
    /\ pending' = NoReq
    /\ UNCHANGED <<users, locations, categories, posts, now>>

Next ==
    \/ CreateUser
    \/ DeleteUser
    \/ CreateLocation
    \/ DeleteLocation
    \/ CreateCategory
    \/ DeleteCategory
    \/ SetCategoryPublished
    \/ SetCategorySlug
    \/ CreatePost
    \/ DeletePost
    \/ SetPostCategory
    \/ Tick
    \/ index
    \/ post_detail
    \/ category_posts_category
    \/ category_posts_post_list

Spec == Init /\ [][Next]_vars

\* --------------------------------------------------------------- helpers
TypeOK ==
    /\ users \subseteq UserIds
    /\ locations \subseteq LocationIds
    /\ \A c \in categories : c.id \in CategoryIds /\ c.slug \in Slugs
    /\ \A p \in posts : p.id \in PostIds /\ p.pub_date \in PubDates
    /\ now \in 0..MaxTime

Items(seq) == { seq[i] : i \in 1..Len(seq) }
NoDuplicates(seq) == \A i, j \in 1..Len(seq) : i # j => seq[i] # seq[j]
Descending(seq) == \A i \in 1..(Len(seq) - 1) : seq[i].pub_date >= seq[i + 1].pub_date
StrictlyDescending(seq) ==
    \A i \in 1..(Len(seq) - 1) : seq[i].pub_date > seq[i + 1].pub_date

CategoryOf(p) == CHOOSE c \in categories : c.id = p.category

\* the visibility rule with an optional category: a post without a category
\* is eligible
VisibleOptionalCategory(p) ==
    /\ p.is_published
    /\ p.pub_date < now
    /\ (p.category = NULL \/ CategoryOf(p).is_published)

\* the visibility rule with a required category
VisibleRequiredCategory(p) ==
    /\ p.is_published
    /\ p.pub_date < now
    /\ p.category # NULL
    /\ CategoryOf(p).is_published

\* ------------------------------------------------------------------- C1
\* C1 as stated: a post is in Post.published iff it is published, its
\* pub_date is before now and its category is null or published.
C1_NullCategoryEligible ==
    \A p \in posts :
        p \in get_queryset(posts, categories, now) <=> VisibleOptionalCategory(p)

\* C1 amended: a post is in Post.published iff it is published, its pub_date
\* is before now and it has a category that is published; a post whose
\* category is null is not in it. An index page that is not full shows
\* exactly these posts.
C1_VisibilityRule ==
    /\ \A p \in posts :
           p \in get_queryset(posts, categories, now) <=> VisibleRequiredCategory(p)
    /\ (resp.op = "index" /\ Len(resp.post_list) < resp.arg[1])
           => Items(resp.post_list) = { p \in posts : VisibleRequiredCategory(p) }

C1_Witness ==
    /\ resp.op = "index"
    /\ Len(resp.post_list) = 1
    /\ resp.arg[1] = 2
    /\ \E p \in posts :
           p.category = NULL /\ p.is_published /\ p.pub_date < now

\* ------------------------------------------------------------------- C2
\* C2 as stated: post_detail returns the post with the id iff it exists and
\* is visible (category null or published), and fails with NotFound otherwise.
C2_DetailOptionalCategory ==
    resp.op = "post_detail" =>
        LET match == { p \in posts : p.id = resp.arg[1] /\ VisibleOptionalCategory(p) }
        IN  IF match # {}
            THEN resp.status = 200 /\ resp.post = <<CHOOSE p \in match : TRUE>>
            ELSE Outcome(resp) = Outcome(NotFound("post_detail", resp.arg[1]))

\* C2 amended: post_detail returns the post with the id iff it exists, is
\* published, its pub_date is before now and it has a published category;
\* in every other case, a post without a category included, it fails with
\* NotFound and returns no post.
C2_DetailRequiredCategory ==
    resp.op = "post_detail" =>
        LET match == { p \in posts : p.id = resp.arg[1] /\ VisibleRequiredCategory(p) }
        IN  IF match # {}
            THEN /\ resp.status = 200
                 /\ resp.post = <<CHOOSE p \in match : TRUE>>
                 /\ Cardinality(match) = 1
            ELSE Outcome(resp) = Outcome(NotFound("post_detail", resp.arg[1]))

C2_Witness ==
    /\ resp.op = "post_detail"
    /\ resp.status = 404
    /\ \E p \in posts :
           /\ p.id = resp.arg[1]
           /\ p.category = NULL /\ p.is_published /\ p.pub_date < now

\* ------------------------------------------------------------------- C3
\* C3: the category lookup of category_posts fails with NotFound exactly when
\* no category with the slug is published, whatever posts reference the slug,
\* and goes on to the post query when a published category has the slug.
C3_CategoryNotFound ==
    /\ [][(pending = NoReq /\ resp'.op = "category_posts" /\ resp'.status = 404)
            => /\ \A c \in categories : c.slug = resp'.arg[1] => ~c.is_published
               /\ pending' = NoReq
               /\ Outcome(resp') = Outcome(NotFound("category_posts", resp'.arg[1]))]_vars
    /\ [][(pending = NoReq /\ pending' # NoReq)
            => /\ pending'.category \in categories
               /\ pending'.category.slug = pending'.slug
               /\ pending'.category.is_published
               /\ resp' = NoResp]_vars
    /\ [][(pending # NoReq /\ pending' = NoReq)
            => resp'.op = "category_posts" /\ resp'.status = 200]_vars

C3_Witness ==
    /\ resp.op = "category_posts"
    /\ resp.status = 404
    /\ \E p \in posts :
           /\ p.category # NULL
           /\ CategoryOf(p).slug = resp.arg[1]
           /\ p.is_published /\ p.pub_date < now

\* ------------------------------------------------------------------- C4
\* C4 as stated: index returns at most n posts, all visible, each pub_date
\* strictly greater than the next, and fewer than n only if fewer than n
\* visible posts exist.
C4_StrictOrder ==
    resp.op = "index" =>
        /\ Len(resp.post_list) <= resp.arg[1]
        /\ \A p \in Items(resp.post_list) : p \in posts /\ VisibleOptionalCategory(p)
        /\ StrictlyDescending(resp.post_list)
        /\ Len(resp.post_list) < resp.arg[1]
               => Cardinality({ p \in posts : VisibleOptionalCategory(p) }) < resp.arg[1]

\* C4 amended: index returns at most n distinct posts, each published, due
\* and in a published category, ordered by pub_date descending but not
\* strictly (posts with equal pub_date come in an order the store picks);
\* no omitted such post is newer than a returned one, and fewer than n are
\* returned only if fewer than n such posts exist.
C4_RecentPosts ==
    resp.op = "index" =>
        LET visible == { p \in posts : VisibleRequiredCategory(p) }
        IN  /\ Len(resp.post_list) <= resp.arg[1]
            /\ NoDuplicates(resp.post_list)
            /\ Items(resp.post_list) \subseteq visible
            /\ Descending(resp.post_list)
            /\ \A p \in Items(resp.post_list), q \in visible \ Items(resp.post_list) :
                   p.pub_date >= q.pub_date
            /\ Len(resp.post_list) < resp.arg[1]
                   => Cardinality(visible) < resp.arg[1]

C4_Witness ==
    /\ resp.op = "index"
    /\ Len(resp.post_list) = 2
    /\ resp.post_list[1].pub_date = resp.post_list[2].pub_date

C6_Scheduled(p) ==
    /\ p \in get_queryset(posts, categories, now) <=> now > p.pub_date
    /\ (resp.op = "post_detail" /\ resp.arg[1] = p.id)
           => IF now > p.pub_date
              THEN resp.status = 200 /\ resp.post = <<p>>
              ELSE resp.status = 404
    /\ (resp.op = "category_posts" /\ resp.status = 200
            /\ resp.arg[1] = CategoryOf(p).slug)
           => (p \in Items(resp.post_list) <=> now > p.pub_date)

\* C6: now is read at each call. A published post in a published category is
\* absent from Post.published, post_detail and category_posts at every call
\* with now <= pub_date and present at every call with now > pub_date, and
\* while the store is unchanged a visible post stays visible as time advances.
C6_FreshNow ==
    /\ [](\A p \in posts :
              (p.is_published /\ p.category # NULL /\ CategoryOf(p).is_published)
                  => C6_Scheduled(p))
    /\ [][(posts' = posts /\ categories' = categories)
            => /\ now' >= now
               /\ get_queryset(posts, categories, now)
                      \subseteq get_queryset(posts', categories', now')]_vars

C6_Witness ==
    /\ resp.op = "post_detail"
    /\ resp.status = 200
    /\ now = MaxTime
    /\ resp.post[1].pub_date = now - 1

\* ------------------------------------------------------------------- C7
Hidden(p) ==
    \/ ~p.is_published
    \/ p.pub_date >= now
    \/ (p.category # NULL /\ ~CategoryOf(p).is_published)

C7_HiddenAsMissing ==
    /\ \A p \in posts : Hidden(p) =>
           /\ Outcome(post_detail_response(posts, categories, now, p.id))
                  = Outcome(post_detail_response(posts \ {p}, categories, now, p.id))
           /\ Outcome(post_detail_response(posts, categories, now, p.id))
                  = Outcome(post_detail_response(posts, categories, now, MaxPosts + 1))
           /\ (resp.op = "post_detail" /\ resp.arg[1] = p.id)
                  => Outcome(resp) = Outcome(NotFound("post_detail", p.id))
    /\ \A c \in categories : ~c.is_published =>
           get_category(categories, c.slug) = get_category(categories \ {c}, c.slug)

\* C7: a hidden post (unpublished, not yet due or in an unpublished category)
\* cannot be told from a missing one: post_detail gives the same outcome as
\* on the store without that post and as for an id no post has, and an
\* unpublished category's slug gives the same outcome as on the store
\* without that category.
C7_NoLeak ==
    /\ []C7_HiddenAsMissing
    /\ [][\A c \in categories :
              (~c.is_published /\ pending = NoReq) =>
                  /\ pending' # NoReq => pending'.slug # c.slug
                  /\ (resp'.op = "category_posts" /\ resp'.arg[1] = c.slug) =>
                         Outcome(resp') = Outcome(NotFound("category_posts", c.slug))]_vars

C7_Witness ==
    /\ resp.op = "post_detail"
    /\ resp.status = 404
    /\ \E p \in posts : p.id = resp.arg[1] /\ ~p.is_published

\* ------------------------------------------------------------------- C8
\* C8: a step of index, post_detail or category_posts, whether it succeeds
\* or fails with NotFound, leaves users, locations, categories and posts
\* as they were.
C8_ViewsReadOnly ==
    [][(resp' # NoResp \/ pending' # pending) => store' = store]_vars

C8_Witness ==
    /\ resp.op = "index"
    /\ resp.post_list # <<>>
    /\ \E p \in posts : ~p.is_published

\* ------------------------------------------------------------------- C9
ReferentialIntegrity ==
    \A p \in posts :
        /\ p.author \in users
        /\ p.category = NULL \/ \E c \in categories : c.id = p.category
        /\ p.location = NULL \/ p.location \in locations

\* C9: every post's author is an existing user and its category and location
\* are empty or existing records; deleting a user deletes that user's posts,
\* deleting a category or location empties the field of the referencing
\* posts and deletes no post.
C9_ReferentialIntegrity ==
    /\ []ReferentialIntegrity
    /\ [][\A u \in users \ users' :
              posts' = { p \in posts : p.author # u }]_vars
    /\ [][\A c \in categories :
              (\A d \in categories' : d.id # c.id) =>
                  /\ { p.id : p \in posts' } = { p.id : p \in posts }
                  /\ \A p \in posts : \E q \in posts' :
                         q = IF p.category = c.id
                             THEN [p EXCEPT !.category = NULL] ELSE p]_vars
    /\ [][\A l \in locations \ locations' :
              /\ { p.id : p \in posts' } = { p.id : p \in posts }
              /\ \A p \in posts : \E q \in posts' :
                     q = IF p.location = l
                         THEN [p EXCEPT !.location = NULL] ELSE p]_vars

C9_Witness ==
    /\ users # {}
    /\ categories = {}
    /\ locations = {}
    /\ Cardinality(posts) = 2
    /\ \A p \in posts : p.category = NULL /\ p.location = NULL

\* ------------------------------------------------------------------ C10
\* C10 as stated: whatever is written between the two reads of
\* category_posts, every post of the post_list references the returned
\* category, and that category is published in the store the posts were
\* read from.
C10_SameCategory ==
    (resp.op = "category_posts" /\ resp.status = 200) =>
        /\ \A p \in Items(resp.post_list) : p.category = resp.category[1].id
        /\ \E c \in categories : c.id = resp.category[1].id /\ c.is_published

\* C10 amended: whatever is written between the two reads, every post of the
\* post_list references a category that, in the store the posts were read
\* from, has the requested slug and is published; the returned category is
\* the one read by the lookup, with the requested slug and published then,
\* and the posts reference it whenever its record is still in that store
\* (as it is when nothing was written between the reads).
C10_SlugConsistent ==
    (resp.op = "category_posts" /\ resp.status = 200) =>
        /\ \A p \in Items(resp.post_list) :
               /\ p \in posts
               /\ \E c \in categories :
                      c.id = p.category /\ c.slug = resp.arg[1] /\ c.is_published
        /\ resp.category[1].slug = resp.arg[1]
        /\ resp.category[1].is_published
        /\ resp.category[1] \in categories
               => \A p \in Items(resp.post_list) : p.category = resp.category[1].id

C10_Witness ==
    /\ resp.op = "category_posts"
    /\ resp.status = 200
    /\ resp.post_list # <<>>
    /\ resp.post_list[1].category # resp.category[1].id

====
